---- MODULE Spec2Model ----
(***************************************************************************)
(* Model of the cryptocurrency API: the in-memory TTL cache                *)
(* (app/utils/cache.py), the LiveCoinWatch gateway                         *)
(* (app/services/livecoinwatch.py), the parameter validators               *)
(* (app/utils/validators.py) and the HTTP endpoints (app/main.py).         *)
(*                                                                         *)
(* Python values are modelled as tagged records: None, dict (a function    *)
(* from field names to values) and list (a sequence).  Strings are TLA+    *)
(* strings, handled character by character with SubSeq.                    *)
(***************************************************************************)
EXTENDS Integers, Sequences, FiniteSets, TLC

VARIABLES
    now,        \* time.time(), in seconds
    cache,      \* SimpleCache._cache: key -> [value, timestamp]
    lastOp,     \* history: the last direct cache operation and what it returned
    lastSet,    \* history: per key, the last set() and the timestamp it overwrote
    task,       \* per request handler: where it is, what it was asked, what
                \* it read, wrote and requested upstream, and its response
    served,     \* number of requests made upstream so far
    received    \* history: per cache key, when the upstream response its
                \* value is computed from came in

vars == <<now, cache, lastOp, lastSet, task, served, received>>

----------------------------------------------------------------------------
(* Bounds of the model *)

\* the clock stops advancing here
MaxTime == 301

\* request handlers running at a time
NumTasks == 1

\* requests made upstream in one run
MaxRequests == 2

----------------------------------------------------------------------------
(* Python values *)

None == [kind |-> "None"]
PyDict(f) == [kind |-> "dict", items |-> f]
PyList(s) == [kind |-> "list", items |-> s]

PyStr(x) == [kind |-> "str", s |-> x]
PyNum(x) == [kind |-> "num", n |-> x]
EmptyDict == PyDict([k \in {} |-> None])
EmptyList == PyList(<<>>)

\* bool(v): None, {}, [], "" and 0 are falsy
Truthy(v) ==
    CASE v.kind = "None" -> FALSE
      [] v.kind = "dict" -> DOMAIN v.items # {}
      [] v.kind = "list" -> Len(v.items) > 0
      [] v.kind = "str" -> v.s # ""
      [] v.kind = "num" -> v.n # 0

\* d.get(key, default)
dict_get(d, key, default) ==
    IF key \in DOMAIN d.items THEN d.items[key] ELSE default

\* str(v), as an f-string formats it
py_str(v) ==
    CASE v.kind = "str" -> v.s
      [] v.kind = "num" -> ToString(v.n)
      [] v.kind = "None" -> "None"
      [] v.kind = "dict" -> "{...}"
      [] v.kind = "list" -> "[...]"

----------------------------------------------------------------------------
(* Python str operations, character by character *)

CharAt(s, i) == SubSeq(s, i, i)

UpperOf ==
    [a |-> "A", b |-> "B", c |-> "C", d |-> "D", e |-> "E", f |-> "F",
     g |-> "G", h |-> "H", i |-> "I", j |-> "J", k |-> "K", l |-> "L",
     m |-> "M", n |-> "N", o |-> "O", p |-> "P", q |-> "Q", r |-> "R",
     s |-> "S", t |-> "T", u |-> "U", v |-> "V", w |-> "W", x |-> "X",
     y |-> "Y", z |-> "Z"]

LowerOf ==
    [A |-> "a", B |-> "b", C |-> "c", D |-> "d", E |-> "e", F |-> "f",
     G |-> "g", H |-> "h", I |-> "i", J |-> "j", K |-> "k", L |-> "l",
     M |-> "m", N |-> "n", O |-> "o", P |-> "p", Q |-> "q", R |-> "r",
     S |-> "s", T |-> "t", U |-> "u", V |-> "v", W |-> "w", X |-> "x",
     Y |-> "y", Z |-> "z"]

UpperChar(c) == IF c \in DOMAIN UpperOf THEN UpperOf[c] ELSE c
LowerChar(c) == IF c \in DOMAIN LowerOf THEN LowerOf[c] ELSE c

RECURSIVE str_upper(_)
\* str.upper
str_upper(s) ==
    IF Len(s) = 0 THEN ""
    ELSE UpperChar(CharAt(s, 1)) \o str_upper(SubSeq(s, 2, Len(s)))

RECURSIVE str_lower(_)
\* str.lower
str_lower(s) ==
    IF Len(s) = 0 THEN ""
    ELSE LowerChar(CharAt(s, 1)) \o str_lower(SubSeq(s, 2, Len(s)))

Whitespace == {" ", "\t", "\n", "\r"}

RECURSIVE str_lstrip(_)
str_lstrip(s) ==
    IF Len(s) > 0 /\ CharAt(s, 1) \in Whitespace
    THEN str_lstrip(SubSeq(s, 2, Len(s)))
    ELSE s

RECURSIVE str_rstrip(_)
str_rstrip(s) ==
    IF Len(s) > 0 /\ CharAt(s, Len(s)) \in Whitespace
    THEN str_rstrip(SubSeq(s, 1, Len(s) - 1))
    ELSE s

\* str.strip
str_strip(s) == str_rstrip(str_lstrip(s))

\* needle in hay
str_contains(hay, needle) ==
    \E i \in 1..(Len(hay) - Len(needle) + 1) :
        SubSeq(hay, i, i + Len(needle) - 1) = needle

\* sep.join(parts)
RECURSIVE str_join(_, _)
str_join(sep, parts) ==
    IF Len(parts) = 0 THEN ""
    ELSE IF Len(parts) = 1 THEN parts[1]
    ELSE parts[1] \o sep \o str_join(sep, Tail(parts))

----------------------------------------------------------------------------
(* Results of calls: a returned value or a raised exception *)

Return(v) == [ok |-> TRUE, value |-> v]
Raise(cls, m) == [ok |-> FALSE, exc |-> cls, msg |-> m]

\* ValueError and its subclasses (json.JSONDecodeError and pydantic's
\* ValidationError are)
ValueErrors == {"ValueError", "JSONDecodeError", "ValidationError"}

----------------------------------------------------------------------------
(* app/utils/validators.py *)

Digits == {"0", "1", "2", "3", "4", "5", "6", "7", "8", "9"}
UpperAlnum == DOMAIN LowerOf \cup Digits

\* re.match(r'^[A-Z0-9]+$', s); $ also matches just before a final newline
re_match_symbol(s) ==
    LET body == IF Len(s) > 0 /\ CharAt(s, Len(s)) = "\n"
                THEN SubSeq(s, 1, Len(s) - 1) ELSE s
    IN  /\ Len(body) >= 1
        /\ \A i \in 1..Len(body) : CharAt(body, i) \in UpperAlnum

\* validate_crypto_symbol that skips the length check
validate_crypto_symbol_nolen(symbol) ==
    IF symbol = ""
    THEN Raise("ValueError", "Symbol must be a non-empty string")
    ELSE LET sym == str_upper(str_strip(symbol)) IN
         IF ~re_match_symbol(sym)
         THEN Raise("ValueError", "Symbol must contain only letters and numbers")
         ELSE Return(sym)

validate_crypto_symbol(symbol) ==
    IF symbol = ""
    THEN Raise("ValueError", "Symbol must be a non-empty string")
    ELSE LET sym == str_upper(str_strip(symbol)) IN
         IF ~re_match_symbol(sym)
         THEN Raise("ValueError", "Symbol must contain only letters and numbers")
         ELSE IF Len(sym) < 1 \/ Len(sym) > 10
         THEN Raise("ValueError", "Symbol must be between 1 and 10 characters")
         ELSE Return(sym)

supported_currencies ==
    {"USD", "EUR", "GBP", "JPY", "CAD", "AUD", "CHF", "CNY", "KRW", "INR"}

\* the message lists the supported set in the iteration order of a Python set;
\* one order is written out here
supported_listing ==
    str_join(", ", <<"USD", "EUR", "GBP", "JPY", "CAD", "AUD", "CHF", "CNY",
                     "KRW", "INR">>)

validate_currency(currency) ==
    IF currency = ""
    THEN Raise("ValueError", "Currency must be a non-empty string")
    ELSE LET cur == str_upper(str_strip(currency)) IN
         IF cur \notin supported_currencies
         THEN Raise("ValueError", "Currency '" \o cur
                        \o "' not supported. Supported: " \o supported_listing)
         ELSE Return(cur)

validate_limit(limit, max_limit) ==
    IF limit < 1
    THEN Raise("ValueError", "Limit must be at least 1")
    ELSE IF limit > max_limit
    THEN Raise("ValueError", "Limit cannot exceed " \o ToString(max_limit))
    ELSE Return(limit)

----------------------------------------------------------------------------
(* app/models.py *)

\* class Currency(str, Enum): the values a currency query parameter may take
Currency == {"USD", "EUR", "GBP", "JPY", "CAD", "AUD"}

----------------------------------------------------------------------------
(* app/config.py *)

cache_ttl_seconds == 300

----------------------------------------------------------------------------
(* app/utils/cache.py: SimpleCache *)

\* SimpleCache.__init__: self.ttl = ttl or settings.cache_ttl_seconds
ttl == cache_ttl_seconds

\* SimpleCache.get with the expiry test off by one (>= for >)
SimpleCache_get_ge(c, key, t) ==
    IF key \notin DOMAIN c
    THEN [ret |-> None, cache |-> c]
    ELSE IF t - c[key].timestamp >= ttl
         THEN [ret |-> None,
               cache |-> [k \in DOMAIN c \ {key} |-> c[k]]]
         ELSE [ret |-> c[key].value, cache |-> c]

\* SimpleCache.get without the expiry test
SimpleCache_get_forever(c, key, t) ==
    IF key \notin DOMAIN c
    THEN [ret |-> None, cache |-> c]
    ELSE [ret |-> c[key].value, cache |-> c]

\* SimpleCache.get that refreshes the timestamp of the entry it returns
SimpleCache_get_touch(c, key, t) ==
    IF key \notin DOMAIN c
    THEN [ret |-> None, cache |-> c]
    ELSE IF t - c[key].timestamp > ttl
         THEN [ret |-> None,
               cache |-> [k \in DOMAIN c \ {key} |-> c[k]]]
         ELSE [ret |-> c[key].value,
               cache |-> [c EXCEPT ![key].timestamp = t]]

\* SimpleCache.get that lets an entry live for twice the ttl
SimpleCache_get_twice(c, key, t) ==
    IF key \notin DOMAIN c
    THEN [ret |-> None, cache |-> c]
    ELSE IF t - c[key].timestamp > 2 * ttl
         THEN [ret |-> None,
               cache |-> [k \in DOMAIN c \ {key} |-> c[k]]]
         ELSE [ret |-> c[key].value, cache |-> c]

\* SimpleCache.get at time t: the returned value and the entry table afterwards
SimpleCache_get(c, key, t) ==
    IF key \notin DOMAIN c
    THEN [ret |-> None, cache |-> c]
    ELSE IF t - c[key].timestamp > ttl
         THEN [ret |-> None,
               cache |-> [k \in DOMAIN c \ {key} |-> c[k]]]
         ELSE [ret |-> c[key].value, cache |-> c]

\* SimpleCache.set that keeps the timestamp of an entry it overwrites
SimpleCache_set_keep(c, key, value, t) ==
    [k \in DOMAIN c \cup {key} |->
        IF k = key
        THEN [value |-> value,
              timestamp |-> IF key \in DOMAIN c THEN c[key].timestamp ELSE t]
        ELSE c[k]]

\* SimpleCache.set at time t: the entry table afterwards
SimpleCache_set(c, key, value, t) ==
    [k \in DOMAIN c \cup {key} |->
        IF k = key THEN [value |-> value, timestamp |-> t] ELSE c[k]]

\* SimpleCache.clear
SimpleCache_clear(c) == [k \in {} |-> None]

\* a size that counts the stored values instead of the keys
SimpleCache_size_values(c) == Cardinality({c[k].value : k \in DOMAIN c})

\* SimpleCache.size
SimpleCache_size(c) == Cardinality(DOMAIN c)

----------------------------------------------------------------------------
(* What the upstream call can come back with: an HTTP response (status and *)
(* body), a timeout, or another transport failure with its cause text.     *)

EmptyBody == [form |-> "empty"]
TextBody(x) == [form |-> "text", text |-> x]
JsonBody(v) == [form |-> "json", value |-> v]

HttpResponse(status, body) ==
    [kind |-> "response", status_code |-> status, body |-> body]
TimeoutException == [kind |-> "timeout"]
RequestError(cause) == [kind |-> "request_error", cause |-> cause]

\* response.json()
response_json(body) ==
    IF body.form = "json"
    THEN Return(body.value)
    ELSE Raise("JSONDecodeError", "Expecting value: line 1 column 1 (char 0)")

----------------------------------------------------------------------------
(* app/services/livecoinwatch.py *)

LCWError(m) == Raise("LiveCoinWatchError", m)

\* the else branch of _make_request: a status other than 200, 401, 404, 429
api_error(response) ==
    LET error_data == IF response.body.form # "empty"
                      THEN response_json(response.body)
                      ELSE Return(EmptyDict)
    IN  IF ~error_data.ok THEN error_data
        ELSE IF error_data.value.kind # "dict"
        THEN Raise("AttributeError", "object has no attribute 'get'")
        ELSE LET err == dict_get(error_data.value, "error", EmptyDict) IN
             IF err.kind # "dict"
             THEN Raise("AttributeError", "object has no attribute 'get'")
             ELSE LET error_msg ==
                          dict_get(err, "description", PyStr("Unknown error"))
                  IN  LCWError("API error (" \o ToString(response.status_code)
                                   \o "): " \o py_str(error_msg))

\* LiveCoinWatchService._make_request, from the outcome of client.post on
_make_request(outcome) ==
    CASE outcome.kind = "timeout" ->
            LCWError("Request timeout - API may be unavailable")
      [] outcome.kind = "request_error" ->
            LCWError("Network error: " \o outcome.cause)
      [] outcome.kind = "response" ->
            CASE outcome.status_code = 200 -> response_json(outcome.body)
              [] outcome.status_code = 401 ->
                    LCWError("Invalid API key or unauthorized access")
              [] outcome.status_code = 404 -> LCWError("Endpoint not found")
              [] outcome.status_code = 429 -> LCWError("Rate limit exceeded")
              [] OTHER -> api_error(outcome)

\* the cache keys of the four operations
key_single_coin(symbol, currency) == "coin_" \o symbol \o "_" \o currency

key_coins_list(currency, limit, offset) ==
    "coins_list_" \o currency \o "_" \o ToString(limit) \o "_" \o ToString(offset)

\* a search key that leaves the currency out
key_search_coins_nocurrency(query, currency, limit) ==
    "search_" \o query \o "_" \o ToString(limit)

key_search_coins(query, currency, limit) ==
    "search_" \o query \o "_" \o currency \o "_" \o ToString(limit)

key_market_overview(currency) == "market_overview_" \o currency

(* A gateway operation runs from its call to its only suspension point,    *)
(* the upstream request, and from the upstream outcome to its end.  Each   *)
(* part yields the entry table it leaves, the keys it read and set, and    *)
(* either its result or the upstream request it waits for.                 *)

Done(result, c, gets, sets) ==
    [done |-> TRUE, result |-> result, cache |-> c, gets |-> gets, sets |-> sets]
Pending(request, c, gets, sets) ==
    [done |-> FALSE, request |-> request, cache |-> c, gets |-> gets, sets |-> sets]

\* get_single_coin up to the upstream request
get_single_coin_call(c, t, symbol, currency) ==
    LET cache_key == key_single_coin(symbol, currency)
        cached_data == SimpleCache_get(c, cache_key, t)
    IN  IF Truthy(cached_data.ret)
        THEN Done(Return(cached_data.ret), cached_data.cache, {cache_key}, {})
        ELSE Pending([endpoint |-> "coins/single",
                      data |-> [currency |-> currency, code |-> symbol,
                                meta |-> TRUE]],
                     cached_data.cache, {cache_key}, {})

\* get_single_coin that stores its result under the overview key
get_single_coin_resume_wrongkey(c, t, symbol, currency, outcome) ==
    LET cache_key == key_market_overview(currency)
        result == _make_request(outcome)
    IN  IF result.ok
        THEN Done(result, SimpleCache_set(c, cache_key, result.value, t),
                  {}, {cache_key})
        ELSE IF /\ result.exc = "LiveCoinWatchError"
                /\ str_contains(str_lower(result.msg), "not found")
        THEN Done(LCWError("Cryptocurrency '" \o symbol \o "' not found"),
                  c, {}, {})
        ELSE Done(result, c, {}, {})

\* get_single_coin from the upstream outcome on
get_single_coin_resume(c, t, symbol, currency, outcome) ==
    LET cache_key == key_single_coin(symbol, currency)
        result == _make_request(outcome)
    IN  IF result.ok
        THEN Done(result, SimpleCache_set(c, cache_key, result.value, t),
                  {}, {cache_key})
        ELSE IF /\ result.exc = "LiveCoinWatchError"
                /\ str_contains(str_lower(result.msg), "not found")
        THEN Done(LCWError("Cryptocurrency '" \o symbol \o "' not found"),
                  c, {}, {})
        ELSE Done(result, c, {}, {})

\* get_coins_list up to the upstream request
get_coins_list_call(c, t, currency, limit, offset) ==
    LET cache_key == key_coins_list(currency, limit, offset)
        cached_data == SimpleCache_get(c, cache_key, t)
    IN  IF Truthy(cached_data.ret)
        THEN Done(Return(cached_data.ret), cached_data.cache, {cache_key}, {})
        ELSE Pending([endpoint |-> "coins/list",
                      data |-> [currency |-> currency, sort |-> "rank",
                                order |-> "ascending", offset |-> offset,
                                limit |-> limit, meta |-> FALSE]],
                     cached_data.cache, {cache_key}, {})

\* get_coins_list that caches before it looks at the outcome
get_coins_list_resume_eager(c, t, currency, limit, offset, outcome) ==
    LET cache_key == key_coins_list(currency, limit, offset)
        result == _make_request(outcome)
    IN  Done(result,
             SimpleCache_set(c, cache_key,
                             IF result.ok THEN result.value ELSE None, t),
             {}, {cache_key})

\* get_coins_list from the upstream outcome on
get_coins_list_resume(c, t, currency, limit, offset, outcome) ==
    LET cache_key == key_coins_list(currency, limit, offset)
        result == _make_request(outcome)
    IN  IF result.ok
        THEN Done(result, SimpleCache_set(c, cache_key, result.value, t),
                  {}, {cache_key})
        ELSE Done(result, c, {}, {})

NoAttribute == Raise("AttributeError", "object has no attribute")

RECURSIVE search_loop(_, _, _, _, _)
\* the for loop of search_coins over coins[i..], with the matches so far
search_loop(coins, i, query_lower, limit, matching_coins) ==
    IF i > Len(coins) THEN Return(PyList(matching_coins))
    ELSE
      LET coin == coins[i] IN
      IF coin.kind # "dict" THEN NoAttribute
      ELSE
        LET name == dict_get(coin, "name", PyStr(""))
            code == dict_get(coin, "code", PyStr(""))
            matched == Append(matching_coins, coin)
            found == IF Len(matched) >= limit
                     THEN Return(PyList(matched))
                     ELSE search_loop(coins, i + 1, query_lower, limit, matched)
        IN  IF name.kind # "str" THEN NoAttribute
            ELSE IF str_contains(str_lower(name.s), query_lower) THEN found
            ELSE IF code.kind # "str" THEN NoAttribute
            ELSE IF str_contains(str_lower(code.s), query_lower) THEN found
            ELSE search_loop(coins, i + 1, query_lower, limit, matching_coins)

\* search_coins without the break at limit
search_filter_nobreak(coins_data, query, limit) ==
    CASE coins_data.kind = "list" ->
            search_loop(coins_data.items, 1, str_lower(query),
                        Len(coins_data.items) + 1, <<>>)
      [] coins_data.kind = "dict" ->
            IF DOMAIN coins_data.items = {}
            THEN Return(EmptyList) ELSE NoAttribute
      [] OTHER -> Raise("TypeError", "object is not iterable")

\* the filter of search_coins: iterating a dict yields its keys, which have
\* no get; iterating None raises
search_filter(coins_data, query, limit) ==
    CASE coins_data.kind = "list" ->
            search_loop(coins_data.items, 1, str_lower(query), limit, <<>>)
      [] coins_data.kind = "dict" ->
            IF DOMAIN coins_data.items = {}
            THEN Return(EmptyList) ELSE NoAttribute
      [] OTHER -> Raise("TypeError", "object is not iterable")

\* search_coins after get_coins_list has come back with inner
search_coins_rest(inner, t, query, currency, limit, gets) ==
    LET cache_key == key_search_coins(query, currency, limit) IN
    IF ~inner.result.ok
    THEN Done(inner.result, inner.cache, gets \cup inner.gets, inner.sets)
    ELSE LET matching_coins == search_filter(inner.result.value, query, limit) IN
         IF ~matching_coins.ok
         THEN Done(matching_coins, inner.cache, gets \cup inner.gets, inner.sets)
         ELSE Done(matching_coins,
                   SimpleCache_set(inner.cache, cache_key,
                                   matching_coins.value, t),
                   gets \cup inner.gets, inner.sets \cup {cache_key})

\* search_coins up to the upstream request of the get_coins_list it calls
search_coins_call(c, t, query, currency, limit) ==
    LET cache_key == key_search_coins(query, currency, limit)
        cached_data == SimpleCache_get(c, cache_key, t)
    IN  IF Truthy(cached_data.ret)
        THEN Done(Return(cached_data.ret), cached_data.cache, {cache_key}, {})
        ELSE LET inner == get_coins_list_call(cached_data.cache, t,
                                              currency, 200, 0)
             IN  IF inner.done
                 THEN search_coins_rest(inner, t, query, currency, limit,
                                        {cache_key})
                 ELSE Pending(inner.request, inner.cache,
                              {cache_key} \cup inner.gets, {})

\* search_coins from the upstream outcome on
search_coins_resume(c, t, query, currency, limit, outcome) ==
    search_coins_rest(get_coins_list_resume(c, t, currency, 200, 0, outcome),
                      t, query, currency, limit, {})

\* get_market_overview up to the upstream request
get_market_overview_call(c, t, currency) ==
    LET cache_key == key_market_overview(currency)
        cached_data == SimpleCache_get(c, cache_key, t)
    IN  IF Truthy(cached_data.ret)
        THEN Done(Return(cached_data.ret), cached_data.cache, {cache_key}, {})
        ELSE Pending([endpoint |-> "overview",
                      data |-> [currency |-> currency]],
                     cached_data.cache, {cache_key}, {})

\* get_market_overview that sends the request again after an error
get_market_overview_resume_retry(c, t, currency, outcome) ==
    LET cache_key == key_market_overview(currency)
        result == _make_request(outcome)
    IN  IF result.ok
        THEN Done(result, SimpleCache_set(c, cache_key, result.value, t),
                  {}, {cache_key})
        ELSE Pending([endpoint |-> "overview",
                      data |-> [currency |-> currency]], c, {}, {})

\* get_market_overview from the upstream outcome on
get_market_overview_resume(c, t, currency, outcome) ==
    LET cache_key == key_market_overview(currency)
        result == _make_request(outcome)
    IN  IF result.ok
        THEN Done(result, SimpleCache_set(c, cache_key, result.value, t),
                  {}, {cache_key})
        ELSE Done(result, c, {}, {})

----------------------------------------------------------------------------
(* app/main.py: responses *)

JSONResponse(status, content) == [status_code |-> status, content |-> content]

\* livecoinwatch_exception_handler
livecoinwatch_exception_handler(msg) ==
    LET m == str_lower(msg)
        status_code == IF str_contains(m, "not found") THEN 404
                       ELSE IF str_contains(m, "unauthorized") THEN 401
                       ELSE IF str_contains(m, "rate limit") THEN 429
                       ELSE 502
    IN  JSONResponse(status_code,
                     PyDict([error |-> PyStr("API Error"),
                             message |-> PyStr(msg),
                             status_code |-> PyNum(status_code)]))

\* validation_exception_handler: registered for ValueError, but every
\* ValueError of an endpoint is caught there and raised again as HTTPException
validation_exception_handler(msg) ==
    JSONResponse(400, PyDict([error |-> PyStr("Validation Error"),
                              message |-> PyStr(msg),
                              status_code |-> PyNum(400)]))

\* raise HTTPException(status_code=400, detail=str(e)): the framework answers
\* with the detail alone
http_exception(status, detail) ==
    JSONResponse(status, PyDict([detail |-> PyStr(detail)]))

\* a path or query parameter that fails its declaration (Currency, ge, le,
\* min_length): the framework answers 422 before the endpoint runs
request_validation_error(param) ==
    JSONResponse(422, PyDict([detail |->
        PyList(<<PyDict([loc |-> PyStr(param)])>>)]))

\* an exception no handler is registered for
internal_server_error == JSONResponse(500, PyStr("Internal Server Error"))

\* how an exception raised inside an endpoint's try block is answered
respond_exception(result) ==
    IF result.exc \in ValueErrors
    THEN http_exception(400, result.msg)
    ELSE IF result.exc = "LiveCoinWatchError"
    THEN livecoinwatch_exception_handler(result.msg)
    ELSE internal_server_error

\* a value for a float or int field of a response model
IsNum(v) == v.kind = "num"
IsStr(v) == v.kind = "str"
IsOptNum(v) == v.kind \in {"num", "None"}

InvalidModel == Raise("ValidationError", "validation error for response model")

\* (item.get("delta", {}).get("day", 1.0) - 1.0) * 100; numbers are counted
\* in thousandths, so 1.0 is 1000
change_24h(data) ==
    LET delta == dict_get(data, "delta", EmptyDict) IN
    IF delta.kind # "dict" THEN NoAttribute
    ELSE LET day == dict_get(delta, "day", PyNum(1000)) IN
         IF ~IsNum(day) THEN Raise("TypeError", "unsupported operand")
         ELSE Return(PyNum((day.n - 1000) * 100))

\* get_cryptocurrency, lines 103-114: CryptocurrencyResponse(**response_data),
\* serialised by alias
lookup_response(data, validated_symbol) ==
    IF data.kind # "dict" THEN NoAttribute
    ELSE
      LET change == change_24h(data)
          symbol == dict_get(data, "symbol", PyStr(validated_symbol))
          name == dict_get(data, "name", PyStr(""))
          price == dict_get(data, "rate", PyNum(0))
          volume == dict_get(data, "volume", PyNum(0))
          cap == dict_get(data, "cap", None)
          rank == dict_get(data, "rank", None)
      IN  IF ~change.ok THEN change
          ELSE IF ~(IsStr(symbol) /\ IsStr(name) /\ IsNum(price) /\ IsNum(volume)
                    /\ IsOptNum(cap) /\ IsOptNum(rank))
          THEN InvalidModel
          ELSE Return(PyDict([symbol |-> symbol, name |-> name,
                              price |-> price, change_24h |-> change.value,
                              volume |-> volume, cap |-> cap, rank |-> rank]))

\* CryptocurrencyListItem(...) of one element of a listing
list_item(item) ==
    IF item.kind # "dict" THEN NoAttribute
    ELSE
      LET change == change_24h(item)
          symbol == dict_get(item, "code", PyStr(""))
          name == dict_get(item, "name", PyStr(""))
          price == dict_get(item, "rate", PyNum(0))
          rank == dict_get(item, "rank", None)
      IN  IF ~change.ok THEN change
          ELSE IF ~(IsStr(symbol) /\ IsStr(name) /\ IsNum(price) /\ IsOptNum(rank))
          THEN InvalidModel
          ELSE Return(PyDict([symbol |-> symbol, name |-> name,
                              price |-> price,
                              percent_change_24h |-> change.value,
                              rank |-> rank]))

RECURSIVE list_items(_, _, _)
\* the for loop of get_cryptocurrencies and search_cryptocurrencies
list_items(items, i, crypto_items) ==
    IF i > Len(items) THEN Return(crypto_items)
    ELSE LET crypto_item == list_item(items[i]) IN
         IF ~crypto_item.ok THEN crypto_item
         ELSE list_items(items, i + 1, Append(crypto_items, crypto_item.value))

\* a list response that inserts every item at the front
list_response_reversed(data, validated_currency) ==
    CASE data.kind = "list" ->
            LET crypto_items == list_items(data.items, 1, <<>>) IN
            IF ~crypto_items.ok THEN crypto_items
            ELSE LET n == Len(crypto_items.value) IN
                 Return(PyDict([data |-> PyList([i \in 1..n |->
                                        crypto_items.value[n + 1 - i]]),
                                total_count |-> PyNum(n),
                                currency |-> PyStr(validated_currency)]))
      [] data.kind = "dict" ->
            IF DOMAIN data.items = {}
            THEN Return(PyDict([data |-> EmptyList, total_count |-> PyNum(0),
                                currency |-> PyStr(validated_currency)]))
            ELSE NoAttribute
      [] OTHER -> Raise("TypeError", "object is not iterable")

\* get_cryptocurrencies, lines 139-155, and search_cryptocurrencies, 180-196
list_response(data, validated_currency) ==
    CASE data.kind = "list" ->
            LET crypto_items == list_items(data.items, 1, <<>>) IN
            IF ~crypto_items.ok THEN crypto_items
            ELSE Return(PyDict([data |-> PyList(crypto_items.value),
                                total_count |-> PyNum(Len(crypto_items.value)),
                                currency |-> PyStr(validated_currency)]))
      [] data.kind = "dict" ->
            IF DOMAIN data.items = {}
            THEN Return(PyDict([data |-> EmptyList, total_count |-> PyNum(0),
                                currency |-> PyStr(validated_currency)]))
            ELSE NoAttribute
      [] OTHER -> Raise("TypeError", "object is not iterable")

\* get_market_overview, lines 218-223
overview_response(data) ==
    IF data.kind # "dict" THEN NoAttribute
    ELSE
      LET cap == dict_get(data, "cap", PyNum(0))
          volume == dict_get(data, "volume", PyNum(0))
          btcDominance == dict_get(data, "btcDominance", None)
          liquidity == dict_get(data, "liquidity", None)
      IN  IF ~(IsNum(cap) /\ IsNum(volume) /\ IsOptNum(btcDominance)
               /\ IsOptNum(liquidity))
          THEN InvalidModel
          ELSE Return(PyDict([total_market_cap |-> cap,
                              total_volume_24h |-> volume,
                              bitcoin_dominance |-> btcDominance,
                              active_cryptocurrencies |-> liquidity]))

\* the HTTP response of an endpoint whose try block ended with result
respond(result) ==
    IF result.ok THEN JSONResponse(200, result.value)
    ELSE respond_exception(result)

----------------------------------------------------------------------------
(* The cache on its own: direct calls of get, set, clear and size,         *)
(* interleaved with the passage of time.                                   *)

CacheKeys == {"k1", "k2"}
CacheValues == {PyDict([rate |-> 1]), PyDict([rate |-> 2])}

\* time passes by half a ttl or by just more than that, so that an entry is
\* read at ages below, equal to and above the ttl
Delays == {cache_ttl_seconds \div 2, cache_ttl_seconds \div 2 + 1}

NoOp == [op |-> "none"]
NoSet == [at |-> -1, value |-> None, over |-> -1]

Idle == [pc |-> "idle"]

Init ==
    /\ now = 0
    /\ cache = [k \in {} |-> None]
    /\ lastOp = NoOp
    /\ lastSet = [k \in CacheKeys |-> NoSet]
    /\ task = [p \in 1..NumTasks |-> Idle]
    /\ served = 0
    /\ received = [k \in {} |-> 0]

Tick ==
    \E d \in Delays :
        /\ now + d <= MaxTime
        /\ now' = now + d
        /\ lastOp' = [op |-> "tick"]
        /\ UNCHANGED <<cache, lastSet, task, served, received>>

CacheGet ==
    \E k \in CacheKeys :
        LET r == SimpleCache_get(cache, k, now) IN
        /\ cache' = r.cache
        /\ lastOp' = [op |-> "get", key |-> k, ret |-> r.ret,
                      had |-> k \in DOMAIN cache,
                      age |-> IF k \in DOMAIN cache
                              THEN now - cache[k].timestamp ELSE 0,
                      stored |-> IF k \in DOMAIN cache
                                 THEN cache[k].value ELSE None]
        /\ UNCHANGED <<now, lastSet, task, served, received>>

CacheSet ==
    \E k \in CacheKeys, v \in CacheValues :
        /\ cache' = SimpleCache_set(cache, k, v, now)
        /\ lastOp' = [op |-> "set", key |-> k, value |-> v]
        /\ lastSet' = [lastSet EXCEPT ![k] =
                          [at |-> now, value |-> v,
                           over |-> IF k \in DOMAIN cache
                                    THEN cache[k].timestamp ELSE -1]]
        /\ UNCHANGED <<now, task, served, received>>

CacheClear ==
    /\ cache' = SimpleCache_clear(cache)
    /\ lastOp' = [op |-> "clear"]
    /\ lastSet' = [k \in CacheKeys |-> NoSet]
    /\ UNCHANGED <<now, task, served, received>>

CacheSize ==
    /\ lastOp' = [op |-> "size", ret |-> SimpleCache_size(cache)]
    /\ UNCHANGED <<now, cache, lastSet, task, served, received>>

NextCache == Tick \/ CacheGet \/ CacheSet \/ CacheClear \/ CacheSize

SpecCache == Init /\ [][NextCache]_vars

----------------------------------------------------------------------------
(* The service: requests arrive at the four endpoints, are validated, run  *)
(* their gateway operation up to the upstream request, and finish when the *)
(* upstream outcome arrives.  Time passes between the steps.               *)

\* what a client may send: for each endpoint, a request that passes every
\* check and requests that fail one
LookupParams ==
    {[symbol |-> "BTC", currency |-> "USD"],
     [symbol |-> " btc ", currency |-> "USD"],
     [symbol |-> "BT-C", currency |-> "USD"],
     [symbol |-> "TOOLONGSYMBOL123", currency |-> "USD"],
     [symbol |-> "BTC", currency |-> "CHF"],
     [symbol |-> "BTC", currency |-> "XYZ"]}
ListParams ==
    {[limit |-> 1, offset |-> 0, currency |-> "USD"],
     [limit |-> 0, offset |-> 0, currency |-> "USD"],
     [limit |-> 101, offset |-> 0, currency |-> "USD"],
     [limit |-> 1, offset |-> -1, currency |-> "USD"],
     [limit |-> 1, offset |-> 0, currency |-> "XYZ"]}
SearchParams ==
    {[query |-> "bit", limit |-> 1, currency |-> "USD"],
     [query |-> "eth", limit |-> 1, currency |-> "USD"],
     [query |-> "", limit |-> 1, currency |-> "USD"],
     [query |-> "bit", limit |-> 0, currency |-> "USD"],
     [query |-> "bit", limit |-> 51, currency |-> "USD"],
     [query |-> "bit", limit |-> 1, currency |-> "XYZ"]}
OverviewParams ==
    {[currency |-> "USD"], [currency |-> "XYZ"]}

\* time passes by a full ttl or by just more than it
Waits == {cache_ttl_seconds, cache_ttl_seconds + 1}

\* what upstream knows, in rank order; numbers are counted in thousandths
Bitcoin ==
    PyDict([name |-> PyStr("Bitcoin"), code |-> PyStr("BTC"),
            rate |-> PyNum(45000500), volume |-> PyNum(25000000),
            cap |-> PyNum(850000000), rank |-> PyNum(1),
            delta |-> PyDict([day |-> PyNum(975)])])
Ethereum ==
    PyDict([name |-> PyStr("Ethereum"), code |-> PyStr("ETH"),
            rate |-> PyNum(3200750), volume |-> PyNum(15000000),
            cap |-> PyNum(380000000), rank |-> PyNum(2),
            delta |-> PyDict([day |-> PyNum(1018)])])
\* the single-coin payload when upstream adds the coin's own sign as symbol
BitcoinMeta ==
    PyDict([name |-> PyStr("Bitcoin"), symbol |-> PyStr("XBT"),
            rate |-> PyNum(45000500), volume |-> PyNum(25000000),
            cap |-> PyNum(850000000), rank |-> PyNum(1),
            delta |-> PyDict([day |-> PyNum(975)])])
BitcoinCash ==
    PyDict([name |-> PyStr("Bitcoin Cash"), code |-> PyStr("BCH"),
            rate |-> PyNum(250300), rank |-> PyNum(3)])
Market == <<Bitcoin, Ethereum, BitcoinCash>>
Overview ==
    PyDict([cap |-> PyNum(1230000000), volume |-> PyNum(40000000),
            btcDominance |-> PyNum(690), liquidity |-> PyNum(3)])

Min(a, b) == IF a < b THEN a ELSE b

\* the bodies upstream may send with status 200 for a request
SuccessBodies(request) ==
    CASE request.endpoint = "coins/single" -> {Bitcoin, BitcoinMeta, EmptyDict}
      [] request.endpoint = "coins/list" ->
            {PyList(SubSeq(Market, 1, Min(request.data.limit, Len(Market)))),
             EmptyList}
      [] request.endpoint = "overview" -> {Overview, EmptyDict}

\* the outcomes of a request that are not a parsable 200
FailureOutcomes ==
    {HttpResponse(401, EmptyBody),
     HttpResponse(404, EmptyBody),
     HttpResponse(429, EmptyBody),
     HttpResponse(500, EmptyBody),
     HttpResponse(500, TextBody("Internal server error")),
     HttpResponse(500, JsonBody(PyDict([error |->
         PyDict([description |-> PyStr("Resource not found")])]))),
     HttpResponse(200, TextBody("<html>")),
     TimeoutException,
     RequestError("Connection refused")}

Outcomes(request) ==
    {HttpResponse(200, JsonBody(v)) : v \in SuccessBodies(request)}
        \cup FailureOutcomes

NoCall == [op |-> "none"]
NoResult == [ok |-> FALSE, exc |-> "none", msg |-> ""]
NoResponse == [status_code |-> 0, content |-> None]
NoOutcome == [kind |-> "none"]
NoRequest == [endpoint |-> "none"]

\* the cache key of a gateway call
call_key(call) ==
    CASE call.op = "get_single_coin" ->
            key_single_coin(call.symbol, call.currency)
      [] call.op = "get_coins_list" ->
            key_coins_list(call.currency, call.limit, call.offset)
      [] call.op = "search_coins" ->
            key_search_coins(call.query, call.currency, call.limit)
      [] call.op = "get_market_overview" ->
            key_market_overview(call.currency)

gateway_call(call, c, t) ==
    CASE call.op = "get_single_coin" ->
            get_single_coin_call(c, t, call.symbol, call.currency)
      [] call.op = "get_coins_list" ->
            get_coins_list_call(c, t, call.currency, call.limit, call.offset)
      [] call.op = "search_coins" ->
            search_coins_call(c, t, call.query, call.currency, call.limit)
      [] call.op = "get_market_overview" ->
            get_market_overview_call(c, t, call.currency)

gateway_resume(call, c, t, outcome) ==
    CASE call.op = "get_single_coin" ->
            get_single_coin_resume(c, t, call.symbol, call.currency, outcome)
      [] call.op = "get_coins_list" ->
            get_coins_list_resume(c, t, call.currency, call.limit,
                                  call.offset, outcome)
      [] call.op = "search_coins" ->
            search_coins_resume(c, t, call.query, call.currency, call.limit,
                                outcome)
      [] call.op = "get_market_overview" ->
            get_market_overview_resume(c, t, call.currency, outcome)

\* the rest of the endpoint's try block once the gateway has returned data
endpoint_response(call, data) ==
    CASE call.op = "get_single_coin" -> lookup_response(data, call.symbol)
      [] call.op = "get_coins_list" -> list_response(data, call.currency)
      [] call.op = "search_coins" -> list_response(data, call.currency)
      [] call.op = "get_market_overview" -> overview_response(data)

\* the endpoint's answer to what the gateway returned or raised
endpoint_finish(call, result) ==
    IF result.ok THEN respond(endpoint_response(call, result.value))
    ELSE respond(result)

\* a request answered before any gateway call
Rejected(endpoint, params, response) ==
    [pc |-> "done", endpoint |-> endpoint, params |-> params, call |-> NoCall,
     fresh |-> FALSE, stale |-> FALSE, listed |-> FALSE,
     gets |-> {}, sets |-> {}, posts |-> 0, request |-> NoRequest,
     outcome |-> NoOutcome, made |-> NoResult, result |-> NoResult,
     over |-> FALSE, resp |-> response]

\* no handler has a response left to send
Quiet == \A q \in DOMAIN task : task[q].pc # "done"

\* a request is taken by the first handler that is free: the handlers are
\* interchangeable
FirstIdle(p) ==
    /\ task[p].pc = "idle"
    /\ \A q \in DOMAIN task : q < p => task[q].pc # "idle"

IsLive(c, key, t) == key \in DOMAIN c /\ t - c[key].timestamp <= ttl

\* when the response behind each entry of c came in, after the operation
\* call wrote the keys in sets at time t: search_coins computes its result
\* from the listing get_coins_list returned, which is the entry of the
\* listing when the operation did not write it; every other value written
\* is the body of the response that has just come in
Origins(rcv, c, call, sets, t) ==
    LET from(k) ==
            IF k \notin sets THEN rcv[k]
            ELSE IF /\ call.op = "search_coins"
                    /\ k = call_key(call)
                    /\ key_coins_list(call.currency, 200, 0) \notin sets
                 THEN rcv[key_coins_list(call.currency, 200, 0)]
                 ELSE t
    IN  [k \in DOMAIN c |-> from(k)]

\* the endpoint calls the gateway: the operation runs to its end on a cache
\* hit, and to the upstream request otherwise
Invoke(p, endpoint, params, call) ==
    LET step == gateway_call(call, cache, now)
        key == call_key(call)
        begun == [pc |-> "await", endpoint |-> endpoint, params |-> params,
                  call |-> call,
                  fresh |-> IsLive(cache, key, now),
                  stale |-> key \in DOMAIN cache /\ ~IsLive(cache, key, now),
                  listed |-> /\ call.op = "search_coins"
                             /\ LET inner == key_coins_list(call.currency, 200, 0)
                                IN  /\ IsLive(cache, inner, now)
                                    /\ Truthy(cache[inner].value),
                  gets |-> step.gets, sets |-> step.sets, posts |-> 0,
                  request |-> NoRequest, outcome |-> NoOutcome, made |-> NoResult,
                  result |-> NoResult, over |-> FALSE, resp |-> NoResponse]
    IN  /\ step.done \/ served < MaxRequests
        /\ served' = IF step.done THEN served ELSE served + 1
        /\ cache' = step.cache
        /\ received' = Origins(received, step.cache, call, step.sets, now)
        /\ task' = [task EXCEPT ![p] =
                IF step.done
                THEN [begun EXCEPT !.pc = "done", !.result = step.result,
                          !.resp = endpoint_finish(call, step.result)]
                ELSE [begun EXCEPT !.posts = 1, !.request = step.request]]

\* GET /crypto/{symbol}
GetCryptocurrency(p) ==
    \E params \in LookupParams :
        LET symbol == params.symbol
            currency == params.currency
            endpoint == "get_cryptocurrency"
            validated_symbol == validate_crypto_symbol(symbol)
            validated_currency == validate_currency(currency)
        IN  /\ FirstIdle(p)
            /\ Quiet
            /\ UNCHANGED <<now, lastOp, lastSet>>
            /\ IF currency \notin Currency
               THEN /\ task' = [task EXCEPT ![p] = Rejected(endpoint, params,
                                    request_validation_error("currency"))]
                    /\ UNCHANGED <<cache, served, received>>
               ELSE IF ~validated_symbol.ok
               THEN /\ task' = [task EXCEPT ![p] = Rejected(endpoint, params,
                                    respond(validated_symbol))]
                    /\ UNCHANGED <<cache, served, received>>
               ELSE IF ~validated_currency.ok
               THEN /\ task' = [task EXCEPT ![p] = Rejected(endpoint, params,
                                    respond(validated_currency))]
                    /\ UNCHANGED <<cache, served, received>>
               ELSE Invoke(p, endpoint, params,
                           [op |-> "get_single_coin",
                            symbol |-> validated_symbol.value,
                            currency |-> validated_currency.value])

\* GET /crypto
GetCryptocurrencies(p) ==
    \E params \in ListParams :
        LET limit == params.limit
            offset == params.offset
            currency == params.currency
            endpoint == "get_cryptocurrencies"
            validated_limit == validate_limit(limit, 100)
            validated_currency == validate_currency(currency)
        IN  /\ FirstIdle(p)
            /\ Quiet
            /\ UNCHANGED <<now, lastOp, lastSet>>
            /\ IF limit < 1 \/ limit > 100
               THEN /\ task' = [task EXCEPT ![p] = Rejected(endpoint, params,
                                    request_validation_error("limit"))]
                    /\ UNCHANGED <<cache, served, received>>
               ELSE IF offset < 0
               THEN /\ task' = [task EXCEPT ![p] = Rejected(endpoint, params,
                                    request_validation_error("offset"))]
                    /\ UNCHANGED <<cache, served, received>>
               ELSE IF currency \notin Currency
               THEN /\ task' = [task EXCEPT ![p] = Rejected(endpoint, params,
                                    request_validation_error("currency"))]
                    /\ UNCHANGED <<cache, served, received>>
               ELSE IF ~validated_limit.ok
               THEN /\ task' = [task EXCEPT ![p] = Rejected(endpoint, params,
                                    respond(validated_limit))]
                    /\ UNCHANGED <<cache, served, received>>
               ELSE IF ~validated_currency.ok
               THEN /\ task' = [task EXCEPT ![p] = Rejected(endpoint, params,
                                    respond(validated_currency))]
                    /\ UNCHANGED <<cache, served, received>>
               ELSE Invoke(p, endpoint, params,
                           [op |-> "get_coins_list",
                            currency |-> validated_currency.value,
                            limit |-> validated_limit.value,
                            offset |-> offset])

\* GET /search
SearchCryptocurrencies(p) ==
    \E params \in SearchParams :
        LET query == params.query
            limit == params.limit
            currency == params.currency
            endpoint == "search_cryptocurrencies"
            validated_limit == validate_limit(limit, 50)
            validated_currency == validate_currency(currency)
        IN  /\ FirstIdle(p)
            /\ Quiet
            /\ UNCHANGED <<now, lastOp, lastSet>>
            /\ IF Len(query) < 1
               THEN /\ task' = [task EXCEPT ![p] = Rejected(endpoint, params,
                                    request_validation_error("query"))]
                    /\ UNCHANGED <<cache, served, received>>
               ELSE IF limit < 1 \/ limit > 50
               THEN /\ task' = [task EXCEPT ![p] = Rejected(endpoint, params,
                                    request_validation_error("limit"))]
                    /\ UNCHANGED <<cache, served, received>>
               ELSE IF currency \notin Currency
               THEN /\ task' = [task EXCEPT ![p] = Rejected(endpoint, params,
                                    request_validation_error("currency"))]
                    /\ UNCHANGED <<cache, served, received>>
               ELSE IF ~validated_limit.ok
               THEN /\ task' = [task EXCEPT ![p] = Rejected(endpoint, params,
                                    respond(validated_limit))]
                    /\ UNCHANGED <<cache, served, received>>
               ELSE IF ~validated_currency.ok
               THEN /\ task' = [task EXCEPT ![p] = Rejected(endpoint, params,
                                    respond(validated_currency))]
                    /\ UNCHANGED <<cache, served, received>>
               ELSE Invoke(p, endpoint, params,
                           [op |-> "search_coins", query |-> query,
                            currency |-> validated_currency.value,
                            limit |-> validated_limit.value])

\* GET /market/overview
GetMarketOverview(p) ==
    \E params \in OverviewParams :
        LET currency == params.currency
            endpoint == "get_market_overview"
            validated_currency == validate_currency(currency)
        IN  /\ FirstIdle(p)
            /\ Quiet
            /\ UNCHANGED <<now, lastOp, lastSet>>
            /\ IF currency \notin Currency
               THEN /\ task' = [task EXCEPT ![p] = Rejected(endpoint, params,
                                    request_validation_error("currency"))]
                    /\ UNCHANGED <<cache, served, received>>
               ELSE IF ~validated_currency.ok
               THEN /\ task' = [task EXCEPT ![p] = Rejected(endpoint, params,
                                    respond(validated_currency))]
                    /\ UNCHANGED <<cache, served, received>>
               ELSE Invoke(p, endpoint, params,
                           [op |-> "get_market_overview",
                            currency |-> validated_currency.value])

\* client.post comes back with outcome (or fails with it) and the operation
\* runs to its end; over records whether the key of the call had an entry
\* at that moment
UpstreamEnds(p, outcome) ==
    LET step == gateway_resume(task[p].call, cache, now, outcome) IN
    /\ task[p].pc = "await"
    /\ Quiet
    /\ cache' = step.cache
    /\ received' = Origins(received, step.cache, task[p].call, step.sets, now)
    /\ task' = [task EXCEPT ![p] =
            IF step.done
            THEN [task[p] EXCEPT !.pc = "done", !.outcome = outcome,
                      !.made = _make_request(outcome),
                      !.result = step.result,
                      !.over = call_key(task[p].call) \in DOMAIN cache,
                      !.gets = task[p].gets \cup step.gets,
                      !.sets = task[p].sets \cup step.sets,
                      !.resp = endpoint_finish(task[p].call, step.result)]
            ELSE [task[p] EXCEPT !.outcome = outcome,
                      !.made = _make_request(outcome),
                      !.posts = task[p].posts + 1,
                      !.request = step.request,
                      !.gets = task[p].gets \cup step.gets,
                      !.sets = task[p].sets \cup step.sets]]
    /\ UNCHANGED <<now, lastOp, lastSet, served>>

UpstreamReply(p) ==
    /\ task[p].pc = "await"
    /\ \E outcome \in Outcomes(task[p].request) : UpstreamEnds(p, outcome)

\* the response is sent and the handler ends; this takes no time and comes
\* before anything else happens
SendResponse(p) ==
    /\ task[p].pc = "done"
    /\ task' = [task EXCEPT ![p] = Idle]
    /\ UNCHANGED <<now, cache, lastOp, lastSet, served, received>>

\* time passes
Elapse ==
    \E d \in Waits :
        /\ Quiet
        /\ now + d <= MaxTime
        /\ now' = now + d
        /\ UNCHANGED <<cache, lastOp, lastSet, task, served, received>>

Next ==
    \/ \E p \in DOMAIN task : GetCryptocurrency(p)
    \/ \E p \in DOMAIN task : GetCryptocurrencies(p)
    \/ \E p \in DOMAIN task : SearchCryptocurrencies(p)
    \/ \E p \in DOMAIN task : GetMarketOverview(p)
    \/ \E p \in DOMAIN task : UpstreamReply(p)
    \/ \E p \in DOMAIN task : SendResponse(p)
    \/ Elapse

Spec == Init /\ [][Next]_vars

\* the service with one handler more, so that operations interleave at
\* their upstream requests
InitConcurrent ==
    /\ now = 0
    /\ cache = [k \in {} |-> None]
    /\ lastOp = NoOp
    /\ lastSet = [k \in CacheKeys |-> NoSet]
    /\ task = [p \in 1..(NumTasks + 1) |-> Idle]
    /\ served = 0
    /\ received = [k \in {} |-> 0]

SpecConcurrent == InitConcurrent /\ [][Next]_vars

\* the service a full ttl after it answered its first request, a search
\* for "bit" that upstream served with the whole listing; the clock's zero
\* is set at the present, so that first request was made at -ttl
FirstSearch ==
    [op |-> "search_coins", query |-> "bit", currency |-> "USD", limit |-> 1]

InitStale ==
    LET first == 0 - cache_ttl_seconds
        asked == gateway_call(FirstSearch, [k \in {} |-> None], first)
        answered == gateway_resume(FirstSearch, asked.cache, first,
                                   HttpResponse(200, JsonBody(PyList(Market))))
    IN  /\ now = 0
        /\ cache = answered.cache
        /\ lastOp = NoOp
        /\ lastSet = [k \in CacheKeys |-> NoSet]
        /\ task = [p \in 1..NumTasks |-> Idle]
        /\ served = 1
        /\ received = [k \in DOMAIN answered.cache |-> first]

SpecStale == InitStale /\ [][Next]_vars

\* client.post is given timeout=10.0: when upstream does not answer, the
\* await ends with httpx.TimeoutException
UpstreamTimeout(p) == UpstreamEnds(p, TimeoutException)

\* the service where a pending upstream request is ended by its timeout at
\* the latest and a finished handler sends its response; nothing is assumed
\* about upstream answering or about new requests arriving
SpecLive ==
    /\ Spec
    /\ \A p \in 1..NumTasks :
          WF_vars(UpstreamTimeout(p)) /\ WF_vars(SendResponse(p))

----------------------------------------------------------------------------
(* The functions of the gateway and of the endpoints on their own: direct  *)
(* calls of the search filter, of the cache keys and of the list           *)
(* projection, with arguments drawn from bounded sets.                     *)

\* longest listing upstream sends in these calls
MaxListing == 4

Coins == {Bitcoin, Ethereum, BitcoinCash}
Listings == UNION {[1..n -> Coins] : n \in 0..MaxListing}
Queries == {"bit", "BTC", "eth"}
Limits == {1, 2, 3}

\* gateway calls with parameters that pass validation
GatewayCalls ==
    {[op |-> "get_single_coin", symbol |-> sy, currency |-> cu] :
        sy \in {"BTC", "ETH", "LIST", "S"}, cu \in {"USD", "EUR"}}
    \cup {[op |-> "get_coins_list", currency |-> cu, limit |-> li,
            offset |-> of] :
        cu \in {"USD", "EUR"}, li \in {1, 11, 100}, of \in {0, 1, 10}}
    \cup {[op |-> "search_coins", query |-> qu, currency |-> cu,
            limit |-> li] :
        qu \in {"bit", "bit_USD", "bit_USD_1", "list_USD_1", "_"},
        cu \in {"USD", "EUR"}, li \in {1, 50}}
    \cup {[op |-> "get_market_overview", currency |-> cu] :
        cu \in {"USD", "EUR"}}

\* requests to the lookup and search endpoints, with spellings of the same
\* symbol and of the same query
KeyRequests ==
    {[endpoint |-> "get_cryptocurrency",
      params |-> [symbol |-> sy, currency |-> "USD"]] :
        sy \in {"BTC", " btc ", "Btc", "ETH"}}
    \cup {[endpoint |-> "search_cryptocurrencies",
            params |-> [query |-> qu, limit |-> 1, currency |-> "USD"]] :
        qu \in {"bit", "BIT", " bit ", "eth"}}

\* the cache key of the gateway call an endpoint makes for a request
request_key(endpoint, params) ==
    CASE endpoint = "get_cryptocurrency" ->
            LET validated_symbol == validate_crypto_symbol(params.symbol)
                validated_currency == validate_currency(params.currency)
            IN  IF ~validated_symbol.ok THEN validated_symbol
                ELSE IF ~validated_currency.ok THEN validated_currency
                ELSE Return(key_single_coin(validated_symbol.value,
                                            validated_currency.value))
      [] endpoint = "search_cryptocurrencies" ->
            LET validated_limit == validate_limit(params.limit, 50)
                validated_currency == validate_currency(params.currency)
            IN  IF ~validated_limit.ok THEN validated_limit
                ELSE IF ~validated_currency.ok THEN validated_currency
                ELSE Return(key_search_coins(params.query,
                                             validated_currency.value,
                                             validated_limit.value))

\* responses with a status other than 200, 401, 404 and 429, in every shape
\* of body
ErrorStatuses == {400, 500, 503}
ErrorBodies ==
    {EmptyBody,
     JsonBody(PyDict([error |->
         PyDict([description |-> PyStr("Service unavailable")])])),
     JsonBody(PyDict([error |-> PyDict([code |-> PyNum(500000)])])),
     JsonBody(PyDict([message |-> PyStr("failed")])),
     JsonBody(PyDict([error |-> PyStr("failed")])),
     JsonBody(PyList(<<PyStr("failed")>>)),
     TextBody("Internal server error")}

\* the calls to make, each with its arguments
Calls ==
    {[op |-> "search_filter", called |-> FALSE, coins |-> coins,
      query |-> query, limit |-> limit, ret |-> NoResult] :
        coins \in Listings, query \in Queries, limit \in Limits}
    \cup {[op |-> "cache_key", called |-> FALSE, a |-> a, b |-> b,
            ka |-> "", kb |-> ""] :
        a \in GatewayCalls, b \in GatewayCalls}
    \cup {[op |-> "request_key", called |-> FALSE, a |-> a, b |-> b,
            ka |-> NoResult, kb |-> NoResult] :
        a \in KeyRequests, b \in KeyRequests}
    \cup {[op |-> "list_response", called |-> FALSE, coins |-> coins,
            ret |-> NoResult] :
        coins \in Listings}
    \cup {[op |-> "_make_request", called |-> FALSE,
            outcome |-> HttpResponse(status, body), ret |-> NoResult] :
        status \in ErrorStatuses, body \in ErrorBodies}

InitCalls ==
    /\ now = 0
    /\ cache = [k \in {} |-> None]
    /\ lastOp \in Calls
    /\ lastSet = [k \in CacheKeys |-> NoSet]
    /\ task = [p \in 1..NumTasks |-> Idle]
    /\ served = 0
    /\ received = [k \in {} |-> 0]

CallSearchFilter ==
    /\ lastOp.op = "search_filter"
    /\ ~lastOp.called
    /\ lastOp' = [lastOp EXCEPT !.called = TRUE,
                      !.ret = search_filter(PyList(lastOp.coins),
                                            lastOp.query, lastOp.limit)]
    /\ UNCHANGED <<now, cache, lastSet, task, served, received>>

CallCacheKey ==
    /\ lastOp.op = "cache_key"
    /\ ~lastOp.called
    /\ lastOp' = [lastOp EXCEPT !.called = TRUE,
                      !.ka = call_key(lastOp.a), !.kb = call_key(lastOp.b)]
    /\ UNCHANGED <<now, cache, lastSet, task, served, received>>

CallRequestKey ==
    /\ lastOp.op = "request_key"
    /\ ~lastOp.called
    /\ lastOp' = [lastOp EXCEPT !.called = TRUE,
                      !.ka = request_key(lastOp.a.endpoint, lastOp.a.params),
                      !.kb = request_key(lastOp.b.endpoint, lastOp.b.params)]
    /\ UNCHANGED <<now, cache, lastSet, task, served, received>>

CallListResponse ==
    /\ lastOp.op = "list_response"
    /\ ~lastOp.called
    /\ lastOp' = [lastOp EXCEPT !.called = TRUE,
                      !.ret = list_response(PyList(lastOp.coins), "USD")]
    /\ UNCHANGED <<now, cache, lastSet, task, served, received>>

CallMakeRequest ==
    /\ lastOp.op = "_make_request"
    /\ ~lastOp.called
    /\ lastOp' = [lastOp EXCEPT !.called = TRUE,
                      !.ret = _make_request(lastOp.outcome)]
    /\ UNCHANGED <<now, cache, lastSet, task, served, received>>

NextCalls ==
    \/ CallSearchFilter
    \/ CallCacheKey
    \/ CallRequestKey
    \/ CallListResponse
    \/ CallMakeRequest

SpecCalls == InitCalls /\ [][NextCalls]_vars

----------------------------------------------------------------------------
(* Claims about the cache, checked under SpecCache *)

\* C3: get(key) returns the stored value exactly when an entry for key exists
\* and now - inserted_at <= ttl, and reports absent otherwise; an entry older
\* than ttl is never returned and is deleted by the get that finds it.
C3_CacheVisibility ==
    lastOp.op = "get" =>
        LET live == lastOp.had /\ lastOp.age <= ttl IN
        /\ live => lastOp.ret = lastOp.stored
        /\ ~live => lastOp.ret = None
        /\ (lastOp.had /\ lastOp.age > ttl) => lastOp.key \notin DOMAIN cache

\* C3 witness: a get has found an expired entry
C3_Witness ==
    /\ lastOp.op = "get"
    /\ lastOp.had
    /\ lastOp.age > ttl
    /\ lastOp.ret = None

\* C5: set(key, v2) at time t2 on a key that already has an entry (v1, t1)
\* leaves the entry (v2, t2), and get(key) returns v2 as long as
\* now - t2 <= ttl, also when now - t1 > ttl.
C5_OverwriteResetsExpiry ==
    /\ lastOp.op = "set" =>
            /\ lastOp.key \in DOMAIN cache
            /\ cache[lastOp.key] = [value |-> lastOp.value, timestamp |-> now]
    /\ (/\ lastOp.op = "get"
        /\ lastSet[lastOp.key].over >= 0
        /\ now - lastSet[lastOp.key].at <= ttl)
            => lastOp.ret = lastSet[lastOp.key].value

\* C5 witness: a get returns the overwriting value after the overwritten
\* entry's own ttl has run out
C5_Witness ==
    /\ lastOp.op = "get"
    /\ lastSet[lastOp.key].over >= 0
    /\ now - lastSet[lastOp.key].over > ttl
    /\ now - lastSet[lastOp.key].at <= ttl
    /\ lastOp.ret = lastSet[lastOp.key].value

\* C17: size() is the number of keys stored, whatever their age: a set of a
\* new key adds one, a get that finds its entry expired removes one, clear
\* leaves none, and the passage of time changes nothing.
C17_SizeCountsStored ==
    [][LET n == Cardinality(DOMAIN cache)
           m == Cardinality(DOMAIN cache')
       IN  /\ now' # now => DOMAIN cache' = DOMAIN cache
           /\ lastOp'.op = "size" => lastOp'.ret = n /\ cache' = cache
           /\ lastOp'.op = "clear" => m = 0
           /\ lastOp'.op = "set" =>
                 DOMAIN cache' = DOMAIN cache \cup {lastOp'.key}
           /\ lastOp'.op = "get" =>
                 DOMAIN cache' =
                    IF lastOp'.had /\ lastOp'.age > ttl
                    THEN DOMAIN cache \ {lastOp'.key}
                    ELSE DOMAIN cache]_vars

\* C17 witness: size() has counted two entries, one of them expired
C17_Witness ==
    /\ lastOp.op = "size"
    /\ lastOp.ret = 2
    /\ \E k \in DOMAIN cache : now - cache[k].timestamp > ttl

\* C22: a get of a key without an entry or with a live entry leaves the
\* entry table as it is, insertion times included; a get of a key with an
\* expired entry removes that entry and leaves every other entry as it is.
C22_GetFrame ==
    [][lastOp'.op = "get" =>
          IF lastOp'.had /\ lastOp'.age > ttl
          THEN /\ DOMAIN cache' = DOMAIN cache \ {lastOp'.key}
               /\ \A k \in DOMAIN cache' : cache'[k] = cache[k]
          ELSE cache' = cache]_vars

\* C22 witness: a get has removed an expired entry and left another expired
\* entry in place
C22_Witness ==
    /\ lastOp.op = "get"
    /\ lastOp.had
    /\ lastOp.age > ttl
    /\ lastOp.key \notin DOMAIN cache
    /\ \E k \in DOMAIN cache : now - cache[k].timestamp > ttl

----------------------------------------------------------------------------
(* Claims about the service, checked under Spec *)

Tasks == {p \in DOMAIN task : task[p].pc # "idle"}
Called == {p \in Tasks : task[p].call.op # "none"}

\* the task of p has moved in the step
Moved(p) == task'[p] # task[p] /\ task'[p].pc # "idle"

\* every entry of d is an entry of c
NothingNew(c, d) == \A k \in DOMAIN d : k \in DOMAIN c /\ d[k] = c[k]

\* C1: a call made while the entry of its key is within the ttl makes no
\* upstream request and is answered from the cache, whatever value the first
\* call has cached.
C1_CacheIdempotence ==
    \A p \in Called :
        task[p].fresh =>
            /\ task[p].posts = 0
            /\ task[p].pc = "done"
            /\ task[p].result.ok

\* C2: an operation that ends in an error has set no cache entry: no step
\* of it adds or overwrites an entry (a get may delete an expired one).
C2_NoCacheOnError ==
    [][\A p \in DOMAIN task :
          (/\ Moved(p)
           /\ task'[p].call.op # "none"
           /\ \/ task'[p].pc = "await"
              \/ ~task'[p].result.ok)
          => /\ NothingNew(cache, cache')
             /\ task'[p].sets = {}]_vars

\* C2 witness: a search has ended in an upstream error
C2_Witness ==
    \E p \in Called :
        /\ task[p].call.op = "search_coins"
        /\ task[p].pc = "done"
        /\ task[p].posts = 1
        /\ ~task[p].result.ok

\* the upstream requests a call that finds its entry expired must make
\* according to C4 as amended
ExpectedPosts(t) ==
    IF t.call.op = "search_coins" /\ t.listed THEN 0 ELSE 1

\* when the call of p has ended with a value, the value is stored under the
\* key of the call with the time of the step
StoredNow(p) ==
    (task'[p].pc = "done" /\ task'[p].result.ok) =>
        LET key == call_key(task'[p].call) IN
        /\ key \in DOMAIN cache'
        /\ cache'[key] = [value |-> task'[p].result.value, timestamp |-> now]

\* C4 as stated: a call that finds the entry of its key older than ttl makes
\* exactly one upstream request and stores the new result under the key with
\* a new insertion time.
C4_Original ==
    [][\A p \in DOMAIN task :
          (Moved(p) /\ task'[p].call.op # "none" /\ task'[p].stale)
          => /\ task'[p].posts = 1
             /\ StoredNow(p)]_vars

\* C4 as amended: a call that finds the entry of its key older than ttl
\* treats it as absent and stores the new result under the key with a new
\* insertion time; it makes exactly one upstream request, except that
\* search_coins makes none when the listing it filters is cached, live and
\* not empty.
C4_TTLExpiry ==
    [][\A p \in DOMAIN task :
          (Moved(p) /\ task'[p].call.op # "none" /\ task'[p].stale)
          => /\ task'[p].posts = ExpectedPosts(task'[p])
             /\ StoredNow(p)]_vars

\* C4 witness: a lookup that found its entry expired has fetched and stored
\* a new result
C4_Witness ==
    \E p \in Called :
        /\ task[p].call.op = "get_single_coin"
        /\ task[p].stale
        /\ task[p].pc = "done"
        /\ task[p].posts = 1
        /\ task[p].result.ok
        /\ call_key(task[p].call) \in DOMAIN cache
        /\ cache[call_key(task[p].call)].timestamp > ttl

StartsWith(str, prefix) ==
    Len(str) >= Len(prefix) /\ SubSeq(str, 1, Len(prefix)) = prefix

IsLCWError(r) == ~r.ok /\ r.exc = "LiveCoinWatchError"

\* the classification of an upstream outcome that C6 states
Classified(o, r) ==
    CASE o.kind = "timeout" ->
            IsLCWError(r) /\ StartsWith(r.msg, "Request timeout")
      [] o.kind = "request_error" ->
            IsLCWError(r) /\ StartsWith(r.msg, "Network error")
      [] o.kind = "response" /\ o.status_code = 200 -> r.ok
      [] o.kind = "response" /\ o.status_code = 401 ->
            IsLCWError(r) /\ str_contains(r.msg, "unauthorized")
      [] o.kind = "response" /\ o.status_code = 404 ->
            IsLCWError(r) /\ str_contains(r.msg, "not found")
      [] o.kind = "response" /\ o.status_code = 429 ->
            IsLCWError(r) /\ StartsWith(r.msg, "Rate limit")
      [] OTHER ->
            IsLCWError(r) /\ StartsWith(r.msg, "API error")

\* C6: every upstream outcome leaves _make_request as a returned body (200)
\* or as the LiveCoinWatchError of its kind.
C6_Classification ==
    \A p \in Called :
        task[p].outcome.kind # "none" =>
            Classified(task[p].outcome, task[p].made)

\* the HTTP status C7 states for an upstream outcome that is an error
StatusFor(o) ==
    IF o.kind = "response" /\ o.status_code \in {401, 404, 429}
    THEN o.status_code
    ELSE 502

\* C7: an upstream error is answered with 401, 404 or 429 when upstream
\* answered with that status, and with 502 in every other case.
C7_StatusByKind ==
    \A p \in Called :
        (task[p].pc = "done" /\ IsLCWError(task[p].made)) =>
            task[p].resp.status_code = StatusFor(task[p].outcome)

\* C8: every error response has a JSON body with exactly the fields error,
\* message and status_code, and status_code is the HTTP status.
C8_ErrorBody ==
    \A p \in Tasks :
        (task[p].pc = "done" /\ task[p].resp.status_code >= 400) =>
            /\ task[p].resp.content.kind = "dict"
            /\ DOMAIN task[p].resp.content.items
                    = {"error", "message", "status_code"}
            /\ task[p].resp.content.items["status_code"]
                    = PyNum(task[p].resp.status_code)

IsSymbol(str) ==
    /\ Len(str) \in 1..10
    /\ \A i \in 1..Len(str) : CharAt(str, i) \in UpperAlnum

HasParam(t, name) == name \in DOMAIN t.params

\* the request of task record t fails one of the checks of C9 and C10
FailsChecks(t) ==
    \/ HasParam(t, "symbol") /\ ~IsSymbol(str_upper(str_strip(t.params.symbol)))
    \/ str_upper(str_strip(t.params.currency)) \notin supported_currencies
    \/ /\ t.endpoint = "get_cryptocurrencies"
       /\ t.params.limit \notin 1..100
    \/ /\ t.endpoint = "search_cryptocurrencies"
       /\ t.params.limit \notin 1..50

\* C9: a gateway operation is only ever invoked with a symbol of 1-10
\* characters of [A-Z0-9] that is the trimmed, uppercased input, a supported
\* currency and a limit within 1..100 (listing) or 1..50 (search); a request
\* that fails a check gets a client error, with no cache access and no
\* upstream request.
C9_ValidatedBeforeGateway ==
    \A p \in Tasks :
        LET t == task[p] IN
        /\ t.call.op = "get_single_coin" =>
                /\ IsSymbol(t.call.symbol)
                /\ t.call.symbol = str_upper(str_strip(t.params.symbol))
        /\ t.call.op # "none" => t.call.currency \in supported_currencies
        /\ t.call.op = "get_coins_list" => t.call.limit \in 1..100
        /\ t.call.op = "search_coins" => t.call.limit \in 1..50
        /\ FailsChecks(t) =>
                /\ t.call.op = "none"
                /\ t.pc = "done"
                /\ t.resp.status_code \in 400..499
                /\ t.gets = {} /\ t.sets = {} /\ t.posts = 0

\* C9 witness: a lookup has reached the gateway with a symbol that differs
\* from the input
C9_Witness ==
    \E p \in Called :
        /\ task[p].call.op = "get_single_coin"
        /\ task[p].call.symbol # task[p].params.symbol

\* C10: a request with a malformed symbol, an unsupported currency or an
\* out-of-range limit is answered with status 400.
C10_ValidationStatus ==
    \A p \in Tasks :
        (task[p].pc = "done" /\ FailsChecks(task[p])) =>
            task[p].resp.status_code = 400

\* C11: a successful lookup response carries the trimmed, uppercased input as
\* its symbol, whether the payload came from upstream or from the cache.
C11_SymbolNormalized ==
    \A p \in Called :
        (/\ task[p].call.op = "get_single_coin"
         /\ task[p].pc = "done"
         /\ task[p].resp.status_code = 200)
        => task[p].resp.content.items["symbol"]
                = PyStr(str_upper(str_strip(task[p].params.symbol)))

\* C13: a request makes at most one upstream request; when that request
\* fails, the operation ends at once with the error and the caller gets an
\* error response.
C13_SingleAttempt ==
    \A p \in Called :
        /\ task[p].posts <= 1
        /\ (task[p].outcome.kind # "none" /\ ~task[p].made.ok) =>
                /\ task[p].pc = "done"
                /\ task[p].result = task[p].made \/ IsLCWError(task[p].result)
                /\ ~task[p].result.ok
                /\ task[p].resp.status_code >= 400

\* C13 witness: the one upstream request of a search has timed out and the
\* search has ended with the error
C13_Witness ==
    \E p \in Called :
        /\ task[p].call.op = "search_coins"
        /\ task[p].outcome = TimeoutException
        /\ task[p].pc = "done"
        /\ task[p].posts = 1
        /\ task[p].resp.status_code = 502

\* C14: a lookup that upstream answers with 404 ends with a not-found error
\* that names the requested symbol and is answered with 404; an upstream
\* error of any other kind leaves the lookup as _make_request raised it.
C14_NotFoundRewrap ==
    \A p \in Called :
        (/\ task[p].call.op = "get_single_coin"
         /\ task[p].pc = "done"
         /\ IsLCWError(task[p].made))
        => IF task[p].outcome.kind = "response"
              /\ task[p].outcome.status_code = 404
           THEN /\ IsLCWError(task[p].result)
                /\ str_contains(task[p].result.msg, task[p].call.symbol)
                /\ str_contains(task[p].result.msg, "not found")
                /\ task[p].resp.status_code = 404
           ELSE task[p].result = task[p].made

\* the value of field name of dict d, None when it is absent
FieldOf(d, name) == dict_get(d, name, None)

\* C18: the body of a successful lookup response has the fields symbol, name,
\* price, percent_change_24h, volume_24h, market_cap and rank, with
\* price = rate, name = name, volume_24h = volume,
\* percent_change_24h = (delta.day - 1.0) * 100, market_cap = cap or absent,
\* rank = rank or absent; numbers are counted in thousandths.
C18_FieldMapping ==
    \A p \in Called :
        (/\ task[p].call.op = "get_single_coin"
         /\ task[p].pc = "done"
         /\ task[p].result.ok
         /\ {"name", "rate", "volume", "delta"}
                \subseteq DOMAIN task[p].result.value.items)
        => LET data == task[p].result.value
               body == task[p].resp.content
           IN  /\ task[p].resp.status_code = 200
               /\ body.kind = "dict"
               /\ DOMAIN body.items =
                     {"symbol", "name", "price", "percent_change_24h",
                      "volume_24h", "market_cap", "rank"}
               /\ body.items["price"] = data.items["rate"]
               /\ body.items["name"] = data.items["name"]
               /\ body.items["volume_24h"] = data.items["volume"]
               /\ body.items["percent_change_24h"] =
                     PyNum((data.items["delta"].items["day"].n - 1000) * 100)
               /\ body.items["market_cap"] = FieldOf(data, "cap")
               /\ body.items["rank"] = FieldOf(data, "rank")

\* C20: a gateway operation that waits for upstream eventually ends, with a
\* value or with a LiveCoinWatchError, and an upstream request that runs
\* into the timeout ends as the timeout LiveCoinWatchError.
C20_BoundedResponse ==
    /\ \A p \in 1..NumTasks :
          (task[p].pc = "await") ~> (task[p].pc = "done")
    /\ [](\A p \in Called :
            /\ task[p].pc = "done" =>
                  task[p].result.ok \/ IsLCWError(task[p].result)
            /\ task[p].outcome = TimeoutException =>
                  task[p].result =
                      LCWError("Request timeout - API may be unavailable"))

----------------------------------------------------------------------------
(* Claims about the functions, checked under SpecCalls *)

\* the lowercased query is a substring of the lowercased name or code
Matches(coin, query) ==
    LET q == str_lower(query) IN
    \/ str_contains(str_lower(dict_get(coin, "name", PyStr("")).s), q)
    \/ str_contains(str_lower(dict_get(coin, "code", PyStr("")).s), q)

\* the first min(limit, m) of the m matching entries, in listing order
FirstMatches(coins, query, limit) ==
    LET all == SelectSeq(coins, LAMBDA coin : Matches(coin, query))
    IN  SubSeq(all, 1, Min(limit, Len(all)))

\* C12: the search filter returns exactly the first min(limit, m) of the m
\* entries of the listing that match the query, in listing order.
C12_SearchShortCircuit ==
    (lastOp.op = "search_filter" /\ lastOp.called) =>
        lastOp.ret = Return(PyList(FirstMatches(lastOp.coins, lastOp.query,
                                                lastOp.limit)))

\* C12 witness: matches at positions 1, 3 and 4 with limit 2 give the
\* entries at positions 1 and 3
C12_Witness ==
    /\ lastOp.op = "search_filter"
    /\ lastOp.called
    /\ lastOp.query = "bit"
    /\ lastOp.limit = 2
    /\ lastOp.coins = <<Bitcoin, Ethereum, BitcoinCash, Bitcoin>>
    /\ lastOp.ret = Return(PyList(<<Bitcoin, BitcoinCash>>))

Normalized(str) == str_upper(str_strip(str))

\* two requests are equal after normalization of symbol, currency and query
SameNormalized(a, b) ==
    /\ a.endpoint = b.endpoint
    /\ Normalized(a.params.currency) = Normalized(b.params.currency)
    /\ a.endpoint = "get_cryptocurrency" =>
            Normalized(a.params.symbol) = Normalized(b.params.symbol)
    /\ a.endpoint = "search_cryptocurrencies" =>
            /\ Normalized(a.params.query) = Normalized(b.params.query)
            /\ a.params.limit = b.params.limit

\* C16: two requests to the same operation whose parameters are equal after
\* normalization use the same cache key.
C16_NormalizedCollide ==
    (lastOp.op = "request_key" /\ lastOp.called) =>
        (SameNormalized(lastOp.a, lastOp.b) => lastOp.ka = lastOp.kb)

\* C19: the data of a list response has the length of the gateway's
\* sequence, its i-th element is the projection of the gateway's i-th
\* element, and total_count is that length.
C19_ListingOrder ==
    (lastOp.op = "list_response" /\ lastOp.called) =>
        /\ lastOp.ret.ok
        /\ LET items == lastOp.ret.value.items IN
           /\ Len(items.data.items) = Len(lastOp.coins)
           /\ \A i \in 1..Len(lastOp.coins) :
                 items.data.items[i] = list_item(lastOp.coins[i]).value
           /\ items.total_count = PyNum(Len(items.data.items))

\* C19 witness: a listing of three different coins has been projected
C19_Witness ==
    /\ lastOp.op = "list_response"
    /\ lastOp.called
    /\ lastOp.coins = <<Bitcoin, Ethereum, BitcoinCash>>
    /\ lastOp.ret.ok
    /\ lastOp.ret.value.items.data.items[3].items.symbol = PyStr("BCH")

\* the description an error body provides: error.description of a JSON object
HasDescription(body) ==
    /\ body.form = "json"
    /\ body.value.kind = "dict"
    /\ "error" \in DOMAIN body.value.items
    /\ body.value.items["error"].kind = "dict"
    /\ "description" \in DOMAIN body.value.items["error"].items
    /\ body.value.items["error"].items["description"].kind = "str"

DescriptionOf(body) ==
    IF HasDescription(body)
    THEN body.value.items["error"].items["description"].s
    ELSE "Unknown error"

\* C21: for a status other than 200, 401, 404 and 429 and any shape of body,
\* _make_request raises the LiveCoinWatchError "API error (status): d", where
\* d is the description of the body when it has one and a default otherwise.
C21_DescriptionPassThrough ==
    (lastOp.op = "_make_request" /\ lastOp.called) =>
        lastOp.ret = LCWError("API error ("
                                \o ToString(lastOp.outcome.status_code)
                                \o "): " \o DescriptionOf(lastOp.outcome.body))

----------------------------------------------------------------------------
(* Claims about the age of what is returned, checked under SpecStale *)

\* how old the response behind a returned value may be
StalenessBound(call) ==
    IF call.op = "search_coins" THEN 2 * ttl ELSE ttl

\* the value p returns is the entry of its key, and the response behind
\* that entry is no older than bound allows
ReturnsWithin(p, bound) ==
    LET key == call_key(task[p].call) IN
    /\ key \in DOMAIN cache
    /\ key \in DOMAIN received
    /\ cache[key].value = task[p].result.value
    /\ now - received[key] <= bound

\* C24: whenever a gateway operation returns a value at time t, the upstream
\* response the value is derived from was received no earlier than t - ttl
\* for lookup, list and overview, and no earlier than t - 2*ttl for search,
\* whose result is stored with a fresh insertion time although it may be
\* computed from a listing that was itself served from the cache.
C24_StalenessBound ==
    \A p \in Called :
        (task[p].pc = "done" /\ task[p].result.ok) =>
            ReturnsWithin(p, StalenessBound(task[p].call))

\* a search served from the cache a full ttl after it was computed from a
\* listing that was a full ttl old
C24_Witness ==
    \E p \in Called :
        /\ task[p].call.op = "search_coins"
        /\ task[p].pc = "done"
        /\ task[p].result.ok
        /\ task[p].fresh
        /\ now - received[call_key(task[p].call)] = 2 * ttl

----------------------------------------------------------------------------
(* Claims about interleaved operations, checked under SpecConcurrent *)

\* the bodies upstream may send with status 200 for a gateway call; for a
\* search, for the listing it filters
UpstreamBodies(call) ==
    CASE call.op = "get_single_coin" ->
            SuccessBodies([endpoint |-> "coins/single"])
      [] call.op = "get_coins_list" ->
            SuccessBodies([endpoint |-> "coins/list",
                           data |-> [limit |-> call.limit]])
      [] call.op = "search_coins" ->
            SuccessBodies([endpoint |-> "coins/list", data |-> [limit |-> 200]])
      [] call.op = "get_market_overview" ->
            SuccessBodies([endpoint |-> "overview"])

\* the values C23 allows under the key of a call
AllowedValues(call) ==
    IF call.op = "search_coins"
    THEN {PyList(FirstMatches(l.items, call.query, call.limit)) :
             l \in UpstreamBodies(call)}
    ELSE UpstreamBodies(call)

\* the gateway calls that have a key in the runs of the service
KeyedCalls ==
    {[op |-> "get_single_coin", symbol |-> "BTC", currency |-> "USD"],
     [op |-> "get_coins_list", currency |-> "USD", limit |-> 1, offset |-> 0],
     [op |-> "get_coins_list", currency |-> "USD", limit |-> 200,
      offset |-> 0],
     [op |-> "search_coins", query |-> "bit", currency |-> "USD", limit |-> 1],
     [op |-> "search_coins", query |-> "eth", currency |-> "USD", limit |-> 1],
     [op |-> "get_market_overview", currency |-> "USD"]}

\* every entry holds a value that upstream returned for its key's call
EntriesFromUpstream ==
    \A key \in DOMAIN cache :
        \E call \in KeyedCalls :
            /\ call_key(call) = key
            /\ cache[key].value \in AllowedValues(call)

\* a call that comes back from upstream with a value stores it under its
\* key with the time of that step, whatever the key held before
LastWriterWins ==
    \A p \in DOMAIN task :
        (/\ task[p].pc = "await"
         /\ task'[p].pc = "done"
         /\ task'[p].result.ok)
        => StoredNow(p)

\* C23: with operations interleaved at their upstream requests, every cache
\* entry holds a value upstream returned with status 200 for the call of
\* its key (for a search key: the filtered prefix of such a listing), and a
\* call that completes overwrites the entry of its key with its own value
\* and its completion time.
C23_InterleavedConsistency ==
    /\ []EntriesFromUpstream
    /\ [][LastWriterWins]_vars

\* C23 witness: a lookup found no entry when it was called, another lookup
\* stored one while it waited, and it has overwritten that entry
C23_Witness ==
    \E p \in Called :
        /\ task[p].call.op = "get_single_coin"
        /\ task[p].pc = "done"
        /\ ~task[p].fresh /\ ~task[p].stale
        /\ task[p].over
        /\ task[p].result.ok
        /\ cache[call_key(task[p].call)] =
                [value |-> task[p].result.value, timestamp |-> now]

====
